---- MODULE Spec2Model ----
(***************************************************************************)
(* Model of the go-quai positional index (core/rawdb accessors for the     *)
(* transaction lookup entries and the bloom bits) and of common/big.go     *)
(* (big-bits arithmetic and the SanityCheck monitor).                      *)
(*                                                                         *)
(* Byte strings are sequences of 0..255.  A uint64 is a TLA+ integer; the  *)
(* values drawn by the actions stay below 2^31.  A big.Int that may exceed *)
(* that is kept as its big-endian byte string.                             *)
(***************************************************************************)
EXTENDS Integers, Sequences, FiniteSets, TLC

VARIABLES
    db,       \* the key-value store: a function from the keys present to their values
    alive,    \* FALSE once a Fatal log has terminated the process
    op,       \* the last operation run, with its arguments
    ret,      \* what the last operation returned
    log,      \* the severities logged by the last operation, in order
    calls,    \* the Put/Delete calls the last operation made on the store, in order
    iter,     \* the iterator of the last operation: "none", "open" or "released"
    shared,   \* common.Big0 .. common.Big2e64: the process-wide big.Int values
    local,    \* the copies SanityCheck took (big0 .. big2e64)
    mpc,      \* where the SanityCheck goroutine is
    sent,     \* completed sends on quitCh
    mlog,     \* the number of errors the SanityCheck goroutine has logged
    bx,       \* big-bits arithmetic: the input
    bv,       \* big-bits arithmetic: Nil, or the big-bits value computed from bx
    bq        \* big-bits arithmetic: Nil, or the [name, val] of the function applied to bv

vars == <<db, alive, op, ret, log, calls, iter, shared, local, mpc, sent, mlog, bx, bv, bq>>
dbVars == <<db, alive, op, ret, log, calls, iter>>
monVars == <<shared, local, mpc, sent, mlog>>
bitsVars == <<bx, bv, bq>>

-----------------------------------------------------------------------------
(* Bounds of the model *)

\* longest hash list handed to a batch operation
MaxBatch == 2
\* most Delete calls that fail during one DeleteBloombits
MaxDeleteFail == 1
\* the latest call of it.Next() at which the iterator may report an error
MaxIterErrAt == 2
\* most shared constants that differ from their canonical value at a time
MaxCorrupt == 1
\* most sends on quitCh that complete
MaxSends == 2
\* the largest input of the big-bits arithmetic
MaxX == 300
\* the exponent of Big2e256 in the model (256 in the source)
Big2e256Bits == 20

-----------------------------------------------------------------------------
(* Bytes *)

\* a Go pointer: nil, or a pointer to v
Nil == <<>>
Ptr(v) == <<v>>
Deref(p) == p[1]

\* common.HashLength
HashLength == 32

Zeros(n) == [i \in 1..n |-> 0]

\* a common.Hash: 32 bytes.  Hash(0) is common.Hash{}.
Hash(i) == [k \in 1..HashLength |-> i]
ZeroHash == Hash(0)

RECURSIVE Bytes(_)
\* big.Int.Bytes(): the minimal big-endian encoding; zero is the empty slice
Bytes(n) == IF n = 0 THEN <<>> ELSE Append(Bytes(n \div 256), n % 256)

RECURSIVE BigEndian(_)
\* the integer a big-endian byte string denotes (big.Int.SetBytes)
BigEndian(b) ==
    IF Len(b) = 0 THEN 0
    ELSE 256 * BigEndian(SubSeq(b, 1, Len(b) - 1)) + b[Len(b)]

\* the last n bytes of b (all of b when it is shorter)
LowBytes(b, n) == IF Len(b) <= n THEN b ELSE SubSeq(b, Len(b) - n + 1, Len(b))

\* new(big.Int).SetBytes(data).Uint64(): the low 64 bits of the value
SetBytesUint64(data) == BigEndian(LowBytes(data, 8))

\* n as exactly w big-endian bytes (binary.BigEndian.PutUintN)
FixedBE(n, w) == Zeros(w - Len(Bytes(n))) \o Bytes(n)

\* bytes.Compare: -1, 0 or 1 in byte-lexicographic order
BytesCompare(a, b) ==
    LET n == IF Len(a) < Len(b) THEN Len(a) ELSE Len(b)
        diff == {i \in 1..n : a[i] # b[i]}
    IN  IF diff = {}
        THEN (IF Len(a) < Len(b) THEN -1 ELSE IF Len(a) > Len(b) THEN 1 ELSE 0)
        ELSE LET i == CHOOSE j \in diff : \A k \in diff : j <= k
             IN  IF a[i] < b[i] THEN -1 ELSE 1

-----------------------------------------------------------------------------
(* Key encoders *)

\* txLookupKey = txLookupPrefix ("l") + hash
txLookupKey(hash) == <<108>> \o hash

\* bloomBitsKey = bloomBitsPrefix ("B") + bit (uint16 big endian)
\*              + section (uint64 big endian) + hash
bloomBitsKey(bit, section, head) ==
    <<66>> \o FixedBE(bit % 65536, 2) \o FixedBE(section, 8) \o head

BloomBitsKeyLength == 43

-----------------------------------------------------------------------------
(* The key-value store *)

EmptyStore == [k \in {} |-> <<>>]

\* db.Get: the value, or nothing (a nil slice and an error) when the key is absent
Get(store, key) == IF key \in DOMAIN store THEN store[key] ELSE <<>>

StorePut(store, key, value) ==
    [k \in (DOMAIN store) \cup {key} |-> IF k = key THEN value ELSE store[k]]

StoreDelete(store, key) == [k \in (DOMAIN store) \ {key} |-> store[k]]

-----------------------------------------------------------------------------
(* Collaborators of the index: the header-number, canonical-hash and block   *)
(* body accessors and the legacy record's wire schema.  The chain they read  *)
(* is fixed: block 1 is canonical with a body, block 258 is canonical with   *)
(* no body stored, block 5 is canonical with a body of other transactions,   *)
(* every other number has no canonical hash.                                 *)

Tx(i) == [hash |-> Hash(i), payload |-> i]

\* ReadHeaderNumber: the number of the header with this hash, or nil
ReadHeaderNumber(store, hash) ==
    IF hash = Hash(11) THEN Ptr(1)
    ELSE IF hash = Hash(12) THEN Ptr(258)
    ELSE Nil

\* ReadCanonicalHash: the canonical hash at a number, or common.Hash{}
ReadCanonicalHash(store, number) ==
    IF number = 1 THEN Hash(11)
    ELSE IF number = 258 THEN Hash(12)
    ELSE IF number = 5 THEN Hash(13)
    ELSE ZeroHash

\* ReadWorkObject(db, number, hash, types.BlockObject).Body().Transactions(),
\* or nil when the work object is not stored
ReadWorkObject(store, number, hash) ==
    IF number = 1 /\ hash = Hash(11) THEN Ptr(<<Tx(2), Tx(1), Tx(1)>>)
    ELSE IF number = 5 /\ hash = Hash(13) THEN Ptr(<<Tx(3)>>)
    ELSE Nil

ProtoError == [ok |-> FALSE, val |-> 0, next |-> 0]

RECURSIVE Varint(_, _, _)
\* a base-128 varint at data[pos]: at most 10 bytes, the high bit continues
Varint(data, pos, n) ==
    IF pos > Len(data) \/ n > 10 THEN ProtoError
    ELSE IF data[pos] < 128 THEN [ok |-> TRUE, val |-> data[pos], next |-> pos + 1]
    ELSE LET r == Varint(data, pos + 1, n + 1)
         IN  IF r.ok
             THEN [ok |-> TRUE, val |-> (data[pos] - 128) + 128 * r.val, next |-> r.next]
             ELSE ProtoError

RECURSIVE ProtoFields(_, _, _)
\* the fields of a wire-format message from data[pos] on; field 2 as a varint is
\* block_index, every other well-formed field is skipped
ProtoFields(data, pos, blockIndex) ==
    IF pos > Len(data) THEN [ok |-> TRUE, blockIndex |-> blockIndex]
    ELSE
      LET tag == Varint(data, pos, 1)
          field == tag.val \div 8
          wire == tag.val % 8
          bad == [ok |-> FALSE, blockIndex |-> 0]
      IN  IF ~tag.ok \/ field = 0 THEN bad
          ELSE IF wire = 0 THEN
              LET v == Varint(data, tag.next, 1)
              IN  IF ~v.ok THEN bad
                  ELSE ProtoFields(data, v.next, IF field = 2 THEN v.val ELSE blockIndex)
          ELSE IF wire = 2 THEN
              LET l == Varint(data, tag.next, 1)
              IN  IF ~l.ok THEN bad
                  ELSE IF l.next + l.val - 1 > Len(data) THEN bad
                  ELSE ProtoFields(data, l.next + l.val, blockIndex)
          ELSE IF wire = 1 THEN
              IF tag.next + 7 > Len(data) THEN bad
              ELSE ProtoFields(data, tag.next + 8, blockIndex)
          ELSE IF wire = 5 THEN
              IF tag.next + 3 > Len(data) THEN bad
              ELSE ProtoFields(data, tag.next + 4, blockIndex)
          ELSE bad

\* proto.Unmarshal(data, protoLegacyTxLookupEntry) and entry.ProtoDecode:
\* [ok, blockIndex]; ok is FALSE when Unmarshal returns an error
ProtoUnmarshal(data) == ProtoFields(data, 1, 0)

\* a well-formed legacy record: hash (field 1, 32 bytes), block_index (field 2)
LegacyBlob(hash, blockIndex) == <<10, 32>> \o hash \o <<16, blockIndex>>

\* a legacy-length blob whose first field announces more bytes than follow
BrokenBlob == <<10, 127>> \o Hash(7)

-----------------------------------------------------------------------------
(* Transaction lookup entries *)

\* a log entry
Logged(level, msg) == [level |-> level, msg |-> msg]

Run0(store) ==
    [db |-> store, log |-> <<>>, calls |-> <<>>, alive |-> TRUE, iter |-> "none"]

\* db.Put(key, value) as one step of an operation; err: the store reports an error
PutCall(run, key, value, err) ==
    [run EXCEPT !.db = IF err THEN @ ELSE StorePut(@, key, value),
                !.calls = Append(@, [call |-> "Put", key |-> key, err |-> err])]

\* db.Delete(key) as one step of an operation
DeleteCall(run, key, err) ==
    [run EXCEPT !.db = IF err THEN @ ELSE StoreDelete(@, key),
                !.calls = Append(@, [call |-> "Delete", key |-> key, err |-> err])]

\* Logger().Fatal: logs and terminates the process
Fatal(run, msg) == [run EXCEPT !.log = Append(@, Logged("fatal", msg)), !.alive = FALSE]

\* ReadTxLookupEntry without the branch of the 32-byte block hash format
ReadTxLookupEntryNoHashFormat(store, hash) ==
    LET data == Get(store, txLookupKey(hash))
    IN  IF Len(data) = 0 THEN [ret |-> Nil, log |-> <<>>]
        ELSE IF Len(data) < HashLength
            THEN [ret |-> Ptr(SetBytesUint64(data)), log |-> <<>>]
        ELSE LET entry == ProtoUnmarshal(data)
             IN  IF ~entry.ok
                 THEN [ret |-> Nil,
                       log |-> <<Logged("error", "Invalid transaction lookup entry protobuf")>>]
                 ELSE [ret |-> Ptr(entry.blockIndex), log |-> <<>>]

\* ReadTxLookupEntry treating a legacy record that does not decode as fatal
ReadTxLookupEntryFatalOnMalformed(store, hash) ==
    LET data == Get(store, txLookupKey(hash))
    IN  IF Len(data) = 0 THEN [ret |-> Nil, log |-> <<>>]
        ELSE IF Len(data) < HashLength
            THEN [ret |-> Ptr(SetBytesUint64(data)), log |-> <<>>]
        ELSE IF Len(data) = HashLength
            THEN [ret |-> ReadHeaderNumber(store, data), log |-> <<>>]
        ELSE LET entry == ProtoUnmarshal(data)
             IN  IF ~entry.ok
                 THEN [ret |-> Nil,
                       log |-> <<Logged("fatal", "Invalid transaction lookup entry protobuf")>>]
                 ELSE [ret |-> Ptr(entry.blockIndex), log |-> <<>>]

\* ReadTxLookupEntry: [ret, log], ret a *uint64
ReadTxLookupEntry(store, hash) ==
    LET data == Get(store, txLookupKey(hash))
    IN  IF Len(data) = 0 THEN [ret |-> Nil, log |-> <<>>]
        ELSE IF Len(data) < HashLength
            THEN [ret |-> Ptr(SetBytesUint64(data)), log |-> <<>>]
        ELSE IF Len(data) = HashLength
            THEN [ret |-> ReadHeaderNumber(store, data), log |-> <<>>]
        ELSE LET entry == ProtoUnmarshal(data)
             IN  IF ~entry.ok
                 THEN [ret |-> Nil,
                       log |-> <<Logged("error", "Invalid transaction lookup entry protobuf")>>]
                 ELSE [ret |-> Ptr(entry.blockIndex), log |-> <<>>]

\* writeTxLookupEntry on a running operation
writeTxLookupEntry(run, hash, numberBytes, err) ==
    LET r == PutCall(run, txLookupKey(hash), numberBytes, err)
    IN  IF err THEN Fatal(r, "Failed to store transaction lookup entry") ELSE r

RECURSIVE WriteEach(_, _, _, _, _)
\* the loop of WriteTxLookupEntries from the i-th hash on; the failAt-th Put
\* fails (none when failAt = 0)
WriteEach(run, numberBytes, hashes, i, failAt) ==
    IF i > Len(hashes) \/ ~run.alive THEN run
    ELSE WriteEach(writeTxLookupEntry(run, hashes[i], numberBytes, i = failAt),
                   numberBytes, hashes, i + 1, failAt)

\* WriteTxLookupEntries that undoes its Puts when one of them fails
WriteTxLookupEntriesAtomic(store, number, hashes, failAt) ==
    LET r == WriteEach(Run0(store), Bytes(number), hashes, 1, failAt)
    IN  IF r.alive THEN r ELSE [r EXCEPT !.db = store]

WriteTxLookupEntries(store, number, hashes, failAt) ==
    WriteEach(Run0(store), Bytes(number), hashes, 1, failAt)

\* DeleteTxLookupEntry on a running operation
DeleteTxLookupEntry(run, hash, err) ==
    LET r == DeleteCall(run, txLookupKey(hash), err)
    IN  IF err THEN Fatal(r, "Failed to delete transaction lookup entry") ELSE r

RECURSIVE DeleteEach(_, _, _, _)
DeleteEach(run, hashes, i, failAt) ==
    IF i > Len(hashes) \/ ~run.alive THEN run
    ELSE DeleteEach(DeleteTxLookupEntry(run, hashes[i], i = failAt),
                    hashes, i + 1, failAt)

\* DeleteTxLookupEntries that skips the first hash of the list
DeleteTxLookupEntriesSkipFirst(store, hashes, failAt) ==
    DeleteEach(Run0(store), hashes, 2, failAt)

DeleteTxLookupEntries(store, hashes, failAt) ==
    DeleteEach(Run0(store), hashes, 1, failAt)

\* WriteTxLookupEntriesByBlock: wo.number is wo.Number(nodeCtx), a big.Int, as
\* its bytes; wo.txs is wo.Body().Transactions()
WriteTxLookupEntriesByBlock(store, wo, failAt) ==
    WriteEach(Run0(store), wo.number, [i \in 1..Len(wo.txs) |-> wo.txs[i].hash],
              1, failAt)

\* the not-found tuple of ReadTransaction
NoTransaction == [tx |-> Nil, blockHash |-> ZeroHash, blockNumber |-> 0, txIndex |-> 0]

RECURSIVE FirstIndex(_, _, _)
\* the first position, from i on, of a transaction with this hash; 0 if none
FirstIndex(txs, hash, i) ==
    IF i > Len(txs) THEN 0
    ELSE IF txs[i].hash = hash THEN i
    ELSE FirstIndex(txs, hash, i + 1)

\* ReadTransaction that keeps the block hash and number when the transaction
\* is not in the body
ReadTransactionPartialTuple(store, hash) ==
    LET entry == ReadTxLookupEntry(store, hash)
    IN  IF entry.ret = Nil THEN [ret |-> NoTransaction, log |-> entry.log]
        ELSE
          LET blockNumber == Deref(entry.ret)
              blockHash == ReadCanonicalHash(store, blockNumber)
          IN  IF blockHash = ZeroHash THEN [ret |-> NoTransaction, log |-> entry.log]
              ELSE
                LET wo == ReadWorkObject(store, blockNumber, blockHash)
                IN  IF wo = Nil
                    THEN [ret |-> NoTransaction,
                          log |-> Append(entry.log,
                                         Logged("error", "Transaction referenced missing"))]
                    ELSE
                      LET i == FirstIndex(Deref(wo), hash, 1)
                      IN  IF i > 0
                          THEN [ret |-> [tx |-> Ptr(Deref(wo)[i]), blockHash |-> blockHash,
                                         blockNumber |-> blockNumber, txIndex |-> i - 1],
                                log |-> entry.log]
                          ELSE [ret |-> [tx |-> Nil, blockHash |-> blockHash,
                                         blockNumber |-> blockNumber, txIndex |-> 0],
                                log |-> Append(entry.log,
                                               Logged("error", "Transaction not found"))]

\* ReadTransaction that returns the last transaction of the body with the hash
ReadTransactionLastMatch(store, hash) ==
    LET entry == ReadTxLookupEntry(store, hash)
    IN  IF entry.ret = Nil THEN [ret |-> NoTransaction, log |-> entry.log]
        ELSE
          LET blockNumber == Deref(entry.ret)
              blockHash == ReadCanonicalHash(store, blockNumber)
          IN  IF blockHash = ZeroHash THEN [ret |-> NoTransaction, log |-> entry.log]
              ELSE
                LET wo == ReadWorkObject(store, blockNumber, blockHash)
                IN  IF wo = Nil
                    THEN [ret |-> NoTransaction,
                          log |-> Append(entry.log,
                                         Logged("error", "Transaction referenced missing"))]
                    ELSE
                      LET at == {i \in 1..Len(Deref(wo)) : Deref(wo)[i].hash = hash}
                          i == IF at = {} THEN 0 ELSE CHOOSE j \in at : \A k \in at : k <= j
                      IN  IF i > 0
                          THEN [ret |-> [tx |-> Ptr(Deref(wo)[i]), blockHash |-> blockHash,
                                         blockNumber |-> blockNumber, txIndex |-> i - 1],
                                log |-> entry.log]
                          ELSE [ret |-> NoTransaction,
                                log |-> Append(entry.log,
                                               Logged("error", "Transaction not found"))]

\* ReadTransaction that logs an error when the number has no canonical hash
ReadTransactionLogsOrphan(store, hash) ==
    LET entry == ReadTxLookupEntry(store, hash)
    IN  IF entry.ret = Nil THEN [ret |-> NoTransaction, log |-> entry.log]
        ELSE
          LET blockNumber == Deref(entry.ret)
              blockHash == ReadCanonicalHash(store, blockNumber)
          IN  IF blockHash = ZeroHash
              THEN [ret |-> NoTransaction,
                    log |-> Append(entry.log,
                                   Logged("error", "Transaction referenced missing"))]
              ELSE
                LET wo == ReadWorkObject(store, blockNumber, blockHash)
                IN  IF wo = Nil
                    THEN [ret |-> NoTransaction,
                          log |-> Append(entry.log,
                                         Logged("error", "Transaction referenced missing"))]
                    ELSE
                      LET i == FirstIndex(Deref(wo), hash, 1)
                      IN  IF i > 0
                          THEN [ret |-> [tx |-> Ptr(Deref(wo)[i]), blockHash |-> blockHash,
                                         blockNumber |-> blockNumber, txIndex |-> i - 1],
                                log |-> entry.log]
                          ELSE [ret |-> NoTransaction,
                                log |-> Append(entry.log,
                                               Logged("error", "Transaction not found"))]

\* ReadTransaction: [ret, log]
ReadTransaction(store, hash) ==
    LET entry == ReadTxLookupEntry(store, hash)
    IN  IF entry.ret = Nil THEN [ret |-> NoTransaction, log |-> entry.log]
        ELSE
          LET blockNumber == Deref(entry.ret)
              blockHash == ReadCanonicalHash(store, blockNumber)
          IN  IF blockHash = ZeroHash THEN [ret |-> NoTransaction, log |-> entry.log]
              ELSE
                LET wo == ReadWorkObject(store, blockNumber, blockHash)
                IN  IF wo = Nil
                    THEN [ret |-> NoTransaction,
                          log |-> Append(entry.log,
                                         Logged("error", "Transaction referenced missing"))]
                    ELSE
                      LET i == FirstIndex(Deref(wo), hash, 1)
                      IN  IF i > 0
                          THEN [ret |-> [tx |-> Ptr(Deref(wo)[i]), blockHash |-> blockHash,
                                         blockNumber |-> blockNumber, txIndex |-> i - 1],
                                log |-> entry.log]
                          ELSE [ret |-> NoTransaction,
                                log |-> Append(entry.log,
                                               Logged("error", "Transaction not found"))]

-----------------------------------------------------------------------------
(* Bloom bits *)

\* ReadBloomBits: db.Get's pair (value, error)
ReadBloomBits(store, bit, section, head) ==
    LET key == bloomBitsKey(bit, section, head)
    IN  [data |-> Get(store, key), err |-> key \notin DOMAIN store]

\* WriteBloomBits that keys the vector by the zero hash instead of head
WriteBloomBitsZeroHead(store, bit, section, head, bits, err) ==
    LET r == PutCall(Run0(store), bloomBitsKey(bit, section, ZeroHash), bits, err)
    IN  IF err THEN Fatal(r, "Failed to store bloom bits") ELSE r

WriteBloomBits(store, bit, section, head, bits, err) ==
    LET r == PutCall(Run0(store), bloomBitsKey(bit, section, head), bits, err)
    IN  IF err THEN Fatal(r, "Failed to store bloom bits") ELSE r

RECURSIVE SortKeys(_)
\* the keys of S in byte-lexicographic order
SortKeys(S) ==
    IF S = {} THEN <<>>
    ELSE LET m == CHOOSE k \in S : \A j \in S : BytesCompare(k, j) <= 0
         IN  <<m>> \o SortKeys(S \ {m})

\* db.NewIterator(nil, start): the keys at or after start, in order, as they
\* are when the iterator is created
NewIterator(store, start) ==
    SortKeys({k \in DOMAIN store : BytesCompare(k, start) >= 0})

RECURSIVE ScanDelete(_, _, _, _, _, _)
\* the loop of DeleteBloombits at the i-th call of it.Next(): [run, itErr].
\* The iterErrAt-th call reports an error (none when 0); Delete fails on the
\* keys of delFail.
ScanDelete(run, keys, i, end, iterErrAt, delFail) ==
    IF i = iterErrAt THEN [run |-> run, itErr |-> TRUE]
    ELSE IF i > Len(keys) THEN [run |-> run, itErr |-> FALSE]
    ELSE IF BytesCompare(keys[i], end) >= 0 THEN [run |-> run, itErr |-> FALSE]
    ELSE IF Len(keys[i]) # BloomBitsKeyLength
        THEN ScanDelete(run, keys, i + 1, end, iterErrAt, delFail)
    ELSE ScanDelete(DeleteCall(run, keys[i], keys[i] \in delFail),
                    keys, i + 1, end, iterErrAt, delFail)

\* DeleteBloombits.  The deferred it.Release() runs when the function returns;
\* Fatal ends the process before it does.
DeleteBloombits(store, bit, from, to, iterErrAt, delFail) ==
    LET start == bloomBitsKey(bit, from, ZeroHash)
        end == bloomBitsKey(bit, to, ZeroHash)
        it == NewIterator(store, start)
        scan == ScanDelete([Run0(store) EXCEPT !.iter = "open"], it, 1, end,
                           iterErrAt, delFail)
    IN  IF scan.itErr THEN Fatal(scan.run, "Failed to delete bloom bits")
        ELSE [scan.run EXCEPT !.iter = "released"]

-----------------------------------------------------------------------------------------------------------------------------------------------------
(* The stores the process may open, and the inputs of the operations *)

TxHashes == {Hash(1), Hash(2)}
Numbers == {0, 258}
BloomBitIndexes == {0, 1}
BloomHead == Hash(21)
WrittenSections == {3}
ReadSections == {2, 3}
SectionBounds == {2, 4}

\* a key of another length that sorts between the bit-0 keys of sections 2 and 3
ForeignKey == <<66>> \o FixedBE(0, 2) \o FixedBE(3, 8)

\* entries written by database versions 4-5 (a block hash) and 3 (a legacy record)
LegacyStore ==
    StorePut(StorePut(EmptyStore, txLookupKey(Hash(1)), Hash(11)),
             txLookupKey(Hash(2)), LegacyBlob(Hash(11), 7))

\* a legacy-length blob that does not decode, and a number wider than 64 bits
MalformedStore ==
    StorePut(StorePut(EmptyStore, txLookupKey(Hash(1)), BrokenBlob),
             txLookupKey(Hash(2)), <<1, 0, 0, 0, 0, 0, 0, 0, 5>>)

\* entries whose header is unknown, or whose block body is not stored
OrphanStore ==
    StorePut(StorePut(EmptyStore, txLookupKey(Hash(1)), Hash(9)),
             txLookupKey(Hash(2)), Hash(12))

RECURSIVE WithSections(_, _, _)
\* store plus the bloom bits of the given bit for sections 1..n
WithSections(store, bit, n) ==
    IF n = 0 THEN store
    ELSE StorePut(WithSections(store, bit, n - 1),
                  bloomBitsKey(bit, n, BloomHead), <<170>>)

\* bloom bits of bit 0 for sections 1..5, one key of another namespace among
\* them, and one section of bit 1
BloomStore ==
    StorePut(StorePut(WithSections(EmptyStore, 0, 5), ForeignKey, <<9>>),
             bloomBitsKey(1, 2, BloomHead), <<170>>)

\* lookup entries of the older formats next to the bloom bits of one section
MixedStore == StorePut(LegacyStore, bloomBitsKey(0, 3, BloomHead), <<170>>)

\* the stores the index operations start from
InitStores == {EmptyStore, LegacyStore, MalformedStore, OrphanStore}

\* the hash lists of length at most MaxBatch
HashLists == UNION {[1..n -> TxHashes] : n \in 0..MaxBatch}

\* the work objects handed to WriteTxLookupEntriesByBlock
WorkObjects == {[number |-> Bytes(1), txs |-> <<Tx(2), Tx(1)>>]}

-----------------------------------------------------------------------------
(* The common big integers and SanityCheck.  A big.Int is its Bytes(). *)

ConstNames ==
    {"Big0", "Big1", "Big2", "Big3", "Big8", "Big32", "Big256", "Big257",
     "Big2e256", "Big2e64"}

\* new(big.Int).Exp(big.NewInt(2), big.NewInt(k), big.NewInt(0)), k a multiple of 8
Exp2(k) == <<1>> \o Zeros(k \div 8)

\* the values the package gives the common big integers
CommonValue(c) ==
    CASE c = "Big0" -> Bytes(0)
      [] c = "Big1" -> Bytes(1)
      [] c = "Big2" -> Bytes(2)
      [] c = "Big3" -> Bytes(3)
      [] c = "Big8" -> Bytes(8)
      [] c = "Big32" -> Bytes(32)
      [] c = "Big256" -> Bytes(256)
      [] c = "Big257" -> Bytes(257)
      [] c = "Big2e256" -> Exp2(256)
      [] c = "Big2e64" -> Exp2(64)

\* the copies SanityCheck builds before it starts its goroutine
LocalCopies == [c \in ConstNames |-> CommonValue(c)]

\* the condition with big256 compared against Big257
MutatedCrossCompare(loc, sh) ==
    \/ loc["Big0"] # sh["Big0"]
    \/ loc["Big1"] # sh["Big1"]
    \/ loc["Big2"] # sh["Big2"]
    \/ loc["Big3"] # sh["Big3"]
    \/ loc["Big8"] # sh["Big8"]
    \/ loc["Big32"] # sh["Big32"]
    \/ loc["Big256"] # sh["Big257"]
    \/ loc["Big257"] # sh["Big257"]
    \/ loc["Big2e256"] # Exp2(256)
    \/ loc["Big2e64"] # Exp2(64)

\* the condition of the if in the goroutine: big0..big257 against the shared
\* values, big2e256 and big2e64 against values computed anew
Mutated(loc, sh) ==
    \/ loc["Big0"] # sh["Big0"]
    \/ loc["Big1"] # sh["Big1"]
    \/ loc["Big2"] # sh["Big2"]
    \/ loc["Big3"] # sh["Big3"]
    \/ loc["Big8"] # sh["Big8"]
    \/ loc["Big32"] # sh["Big32"]
    \/ loc["Big256"] # sh["Big256"]
    \/ loc["Big257"] # sh["Big257"]
    \/ loc["Big2e256"] # Exp2(256)
    \/ loc["Big2e64"] # Exp2(64)

\* the pc of the goroutine after the check of one iteration
AfterCheck(loc, sh) == IF Mutated(loc, sh) THEN "send" ELSE "sleep"

\* the pc of the goroutine after its send on quitCh has completed
AfterSend == "sleep"

\* the values a corrupted constant may take
CorruptValues == {Bytes(0), Bytes(7)}

-----------------------------------------------------------------------------
(* Big-bits arithmetic.  The source works with 64 mantissa bits on big.Int;  *)
(* here the same code runs on TLC's 32-bit integers with MantBits mantissa   *)
(* bits, and Big2e64 is 2^MantBits.                                          *)

MantBits == 6

Big2e64 == 2 ^ MantBits

RECURSIVE BitLen(_)
\* big.Int.BitLen
BitLen(n) == IF n = 0 THEN 0 ELSE 1 + BitLen(n \div 2)

RECURSIVE StripTrailingZeros(_)
\* a float [n, fracBits] without the trailing zero bits of its fraction
StripTrailingZeros(f) ==
    IF f.fracBits > 0 /\ f.n % 2 = 0
    THEN StripTrailingZeros([n |-> f.n \div 2, fracBits |-> f.fracBits - 1])
    ELSE f

\* mathutil's float.normalize: n / 2^fracBits rounded to maxFracBits fraction bits
Normalize(f, maxFracBits) ==
    IF f.fracBits > maxFracBits
    THEN LET d == f.fracBits - maxFracBits
         IN  StripTrailingZeros([n |-> (f.n \div (2 ^ d)) + ((f.n \div (2 ^ (d - 1))) % 2),
                                 fracBits |-> maxFracBits])
    ELSE StripTrailingZeros(f)

RECURSIVE LogBits(_, _, _, _)
\* the loop of mathutil.BinaryLog: square x, shift the mantissa, take a bit when
\* x >= 2; the bits left when x reaches 1 are zero
LogBits(x, mantissa, left, maxFracBits) ==
    IF left = 0 THEN mantissa
    ELSE IF x.fracBits = 0 /\ x.n = 1 THEN mantissa * (2 ^ left)
    ELSE LET sq == Normalize([n |-> x.n * x.n, fracBits |-> 2 * x.fracBits], maxFracBits)
         IN  IF BitLen(sq.n) > sq.fracBits + 1
             THEN LogBits(Normalize([n |-> sq.n, fracBits |-> sq.fracBits + 1], maxFracBits),
                          2 * mantissa + 1, left - 1, maxFracBits)
             ELSE LogBits(sq, 2 * mantissa, left - 1, maxFracBits)

\* mathutil.BinaryLog(n, mantissaBits): the characteristic c and the mantissa m,
\* log2(n) ~ c + m / 2^mantissaBits
BinaryLog(n, mantissaBits) ==
    LET c == BitLen(n) - 1
    IN  [c |-> c,
         m |-> LogBits(Normalize([n |-> n, fracBits |-> c], mantissaBits), 0,
                       mantissaBits, mantissaBits)]

\* BitsToBigBits with the characteristic scaled by one bit too few
BitsToBigBitsShortShift(original) ==
    LET cm == BinaryLog(original, MantBits)
    IN  (cm.c * (2 ^ (MantBits - 1))) + cm.m

BitsToBigBits(original) ==
    LET cm == BinaryLog(original, MantBits)
    IN  (cm.c * (2 ^ MantBits)) + cm.m

BigBitsToBits(original) == original \div Big2e64

\* LogBig that returns the mantissa without the characteristic
LogBigMantissaOnly(diff) ==
    LET diffCopy == diff
        cm == BinaryLog(diffCopy, MantBits)
    IN  cm.m

LogBig(diff) ==
    LET diffCopy == diff
        cm == BinaryLog(diffCopy, MantBits)
    IN  (cm.c * (2 ^ MantBits)) + cm.m

Big2e256 == 2 ^ Big2e256Bits

\* new(big.Int).Exp(x, y, nil): x^y, and 1 when y <= 0
Exp(x, y) == IF y <= 0 THEN 1 ELSE x ^ y

\* EntropyBigBitsToDifficultyBits with the exponent rounded up instead of down
EntropyBigBitsToDifficultyBitsRoundUp(bigBits) ==
    LET twopowerBits == Exp(2, (bigBits + Big2e64 - 1) \div Big2e64)
    IN  Big2e256 \div twopowerBits

EntropyBigBitsToDifficultyBits(bigBits) ==
    LET twopowerBits == Exp(2, bigBits \div Big2e64)
    IN  Big2e256 \div twopowerBits

-----------------------------------------------------------------------------
(* The state of the other components while one of them runs *)

IndexIdle ==
    /\ db = EmptyStore /\ alive = TRUE /\ op = [name |-> "open"] /\ ret = Nil
    /\ log = <<>> /\ calls = <<>> /\ iter = "none"
MonitorIdle ==
    /\ shared = <<>> /\ local = <<>> /\ mpc = "off" /\ sent = 0 /\ mlog = 0
BitsIdle == bx = 0 /\ bv = Nil /\ bq = Nil

-----------------------------------------------------------------------------
(* The operations of the index as actions *)

\* the state after an operation that ran as r and returned v
Ran(o, r, v) ==
    /\ db' = r.db
    /\ alive' = r.alive
    /\ op' = o
    /\ ret' = v
    /\ log' = r.log
    /\ calls' = r.calls
    /\ iter' = r.iter
    /\ UNCHANGED <<monVars, bitsVars>>

\* the state after a read that returned [ret, log]
Read(o, r) == Ran(o, [Run0(db) EXCEPT !.log = r.log], r.ret)

DoReadTxLookupEntry ==
    /\ alive
    /\ \E h \in TxHashes :
         Read([name |-> "ReadTxLookupEntry", hash |-> h], ReadTxLookupEntry(db, h))

DoWriteTxLookupEntries ==
    /\ alive
    /\ \E n \in Numbers, hs \in HashLists : \E failAt \in 0..Len(hs) :
         Ran([name |-> "WriteTxLookupEntries", number |-> n, hashes |-> hs],
             WriteTxLookupEntries(db, n, hs, failAt), Nil)

DoWriteTxLookupEntriesByBlock ==
    /\ alive
    /\ \E wo \in WorkObjects : \E failAt \in 0..Len(wo.txs) :
         Ran([name |-> "WriteTxLookupEntriesByBlock", wo |-> wo],
             WriteTxLookupEntriesByBlock(db, wo, failAt), Nil)

DoDeleteTxLookupEntry ==
    /\ alive
    /\ \E h \in TxHashes, err \in BOOLEAN :
         Ran([name |-> "DeleteTxLookupEntry", hash |-> h],
             DeleteTxLookupEntry(Run0(db), h, err), Nil)

DoDeleteTxLookupEntries ==
    /\ alive
    /\ \E hs \in HashLists : \E failAt \in 0..Len(hs) :
         Ran([name |-> "DeleteTxLookupEntries", hashes |-> hs],
             DeleteTxLookupEntries(db, hs, failAt), Nil)

DoReadTransaction ==
    /\ alive
    /\ \E h \in TxHashes :
         Read([name |-> "ReadTransaction", hash |-> h], ReadTransaction(db, h))

DoReadBloomBits ==
    /\ alive
    /\ \E bit \in BloomBitIndexes, section \in ReadSections :
         Ran([name |-> "ReadBloomBits", bit |-> bit, section |-> section,
              head |-> BloomHead],
             Run0(db), ReadBloomBits(db, bit, section, BloomHead))

DoWriteBloomBits ==
    /\ alive
    /\ \E bit \in BloomBitIndexes, section \in WrittenSections, err \in BOOLEAN :
         Ran([name |-> "WriteBloomBits", bit |-> bit, section |-> section,
              head |-> BloomHead, bits |-> <<85>>],
             WriteBloomBits(db, bit, section, BloomHead, <<85>>, err), Nil)

\* the keys of the store with the bloom bits key length in [start, end)
InRange(store, start, end) ==
    {k \in DOMAIN store :
        /\ Len(k) = BloomBitsKeyLength
        /\ BytesCompare(k, start) >= 0
        /\ BytesCompare(k, end) < 0}

DoDeleteBloombits ==
    /\ alive
    /\ \E bit \in BloomBitIndexes, from \in SectionBounds, to \in SectionBounds :
       \E iterErrAt \in 0..MaxIterErrAt :
       \E delFail \in {f \in SUBSET InRange(db, bloomBitsKey(bit, from, ZeroHash),
                                            bloomBitsKey(bit, to, ZeroHash)) :
                          Cardinality(f) <= MaxDeleteFail} :
         Ran([name |-> "DeleteBloombits", bit |-> bit, from |-> from, to |-> to],
             DeleteBloombits(db, bit, from, to, iterErrAt, delFail), Nil)

Init ==
    /\ db \in InitStores
    /\ alive = TRUE
    /\ op = [name |-> "open"]
    /\ ret = Nil
    /\ log = <<>>
    /\ calls = <<>>
    /\ iter = "none"
    /\ MonitorIdle
    /\ BitsIdle

Next ==
    \/ DoReadTxLookupEntry
    \/ DoWriteTxLookupEntries
    \/ DoWriteTxLookupEntriesByBlock
    \/ DoDeleteTxLookupEntry
    \/ DoDeleteTxLookupEntries
    \/ DoReadTransaction

\* the transaction index, from any of the stores it may open
Spec == Init /\ [][Next]_vars

InitBloom ==
    /\ db = BloomStore
    /\ alive = TRUE
    /\ op = [name |-> "open"]
    /\ ret = Nil
    /\ log = <<>>
    /\ calls = <<>>
    /\ iter = "none"
    /\ MonitorIdle
    /\ BitsIdle

NextBloom ==
    \/ DoReadBloomBits
    \/ DoWriteBloomBits
    \/ DoDeleteBloombits

\* the bloom bits store
SpecBloom == InitBloom /\ [][NextBloom]_vars

InitMixed ==
    /\ db = MixedStore
    /\ alive = TRUE
    /\ op = [name |-> "open"]
    /\ ret = Nil
    /\ log = <<>>
    /\ calls = <<>>
    /\ iter = "none"
    /\ MonitorIdle
    /\ BitsIdle

NextMixed ==
    \/ DoReadTxLookupEntry
    \/ DoWriteTxLookupEntries
    \/ DoWriteTxLookupEntriesByBlock
    \/ DoDeleteTxLookupEntry
    \/ DoDeleteTxLookupEntries
    \/ DoReadTransaction
    \/ DoReadBloomBits
    \/ DoWriteBloomBits
    \/ DoDeleteBloombits

\* one store that holds lookup entries and bloom bits, under all the operations
SpecMixed == InitMixed /\ [][NextMixed]_vars

-----------------------------------------------------------------------------
(* Properties of the transaction index *)

RECURSIVE StripZeros(_)
\* b without its leading zero bytes
StripZeros(b) == IF Len(b) > 0 /\ b[1] = 0 THEN StripZeros(Tail(b)) ELSE b

\* C1: after WriteTxLookupEntries(db, n, [h]) has returned, ReadTxLookupEntry(db, h)
\* returns n, for every block number n, 0 included.
C1_RoundTrip ==
    [][(/\ op.name = "WriteTxLookupEntries" /\ alive /\ Len(op.hashes) = 1
        /\ op'.name = "ReadTxLookupEntry" /\ op'.hash = op.hashes[1])
       => ret' = Ptr(op.number)]_vars

\* C6: WriteTxLookupEntries(db, n, H) followed by DeleteTxLookupEntries(db, H), with
\* no store failure, leaves no entry under txLookupKey(h) for any h of H, and
\* ReadTxLookupEntry finds none of them.
C6_WriteThenDeleteLeavesNone ==
    [][(/\ op.name = "WriteTxLookupEntries" /\ alive
        /\ op'.name = "DeleteTxLookupEntries" /\ op'.hashes = op.hashes /\ alive')
       => \A i \in 1..Len(op.hashes) :
            /\ txLookupKey(op.hashes[i]) \notin DOMAIN db'
            /\ ReadTxLookupEntry(db', op.hashes[i]).ret = Nil]_vars

\* a batch of two different hashes has been written, both entries are in the
\* store, and the batch delete is the next step
C6_Witness ==
    /\ op.name = "WriteTxLookupEntries" /\ alive
    /\ Len(op.hashes) = 2 /\ op.hashes[1] # op.hashes[2] /\ op.number = 258
    /\ \A i \in 1..2 : ReadTxLookupEntry(db, op.hashes[i]).ret = Ptr(258)

\* the value stored for the hash of the last read
ReadData == Get(db, txLookupKey(op.hash))

\* C7 as stated: the branch ReadTxLookupEntry takes depends on the length of the
\* stored value alone: nothing for length 0, the big-endian integer the bytes
\* denote for length 1..31, ReadHeaderNumber of the bytes for length 32, the
\* BlockIndex of the legacy record above 32 when it decodes.
C7_FormatByLength_Stated ==
    op.name = "ReadTxLookupEntry" =>
        /\ Len(ReadData) = 0 => ret = Nil
        /\ Len(ReadData) \in 1..(HashLength - 1) =>
              ret # Nil /\ Bytes(Deref(ret)) = StripZeros(ReadData)
        /\ Len(ReadData) = HashLength => ret = ReadHeaderNumber(db, ReadData)
        /\ (Len(ReadData) > HashLength /\ ProtoUnmarshal(ReadData).ok) =>
              ret = Ptr(ProtoUnmarshal(ReadData).blockIndex)

\* C7 amended: as stated, except that for length 1..31 the number returned is
\* the integer denoted by the last 8 bytes of the value (the value modulo 2^64).
C7_FormatByLength ==
    op.name = "ReadTxLookupEntry" =>
        /\ Len(ReadData) = 0 => ret = Nil
        /\ Len(ReadData) \in 1..(HashLength - 1) =>
              ret # Nil /\ Bytes(Deref(ret)) = StripZeros(LowBytes(ReadData, 8))
        /\ Len(ReadData) = HashLength => ret = ReadHeaderNumber(db, ReadData)
        /\ (Len(ReadData) > HashLength /\ ProtoUnmarshal(ReadData).ok) =>
              ret = Ptr(ProtoUnmarshal(ReadData).blockIndex)

\* a read of a 32-byte value resolved through the header number
C7_Witness ==
    /\ op.name = "ReadTxLookupEntry"
    /\ Len(ReadData) = HashLength
    /\ ret = Ptr(1)

\* the transactions ReadTransaction would scan for the hash of the last read:
\* Nil when the lookup entry, the canonical hash or the body is missing
ResolvedBody ==
    LET entry == ReadTxLookupEntry(db, op.hash)
    IN  IF entry.ret = Nil THEN Nil
        ELSE IF ReadCanonicalHash(db, Deref(entry.ret)) = ZeroHash THEN Nil
        ELSE ReadWorkObject(db, Deref(entry.ret),
                            ReadCanonicalHash(db, Deref(entry.ret)))

\* C8: on every failure path (lookup entry absent, canonical hash absent, body
\* absent, no transaction with the hash in the body) ReadTransaction returns
\* (nil, zero hash, 0, 0), and it never returns nil with another field set.
C8_UniformNotFound ==
    op.name = "ReadTransaction" =>
        /\ ret.tx = Nil => ret = NoTransaction
        /\ ResolvedBody = Nil => ret = NoTransaction
        /\ (ResolvedBody # Nil
            /\ \A i \in 1..Len(Deref(ResolvedBody)) :
                   Deref(ResolvedBody)[i].hash # op.hash) => ret = NoTransaction

\* the lookup entry, the canonical hash and the body were found, and the body
\* holds no transaction with the hash
C8_Witness ==
    /\ op.name = "ReadTransaction"
    /\ ResolvedBody # Nil
    /\ \A i \in 1..Len(Deref(ResolvedBody)) : Deref(ResolvedBody)[i].hash # op.hash
    /\ ret = NoTransaction

\* the stored value for hash is longer than a hash and is no legacy record
Malformed(store, hash) ==
    /\ Len(Get(store, txLookupKey(hash))) > HashLength
    /\ ~ProtoUnmarshal(Get(store, txLookupKey(hash))).ok

\* C9: a stored value longer than 32 bytes that fails the legacy decode makes
\* ReadTxLookupEntry return nil and log exactly one error; nothing fatal is
\* logged, the process goes on and the store is unchanged.
C9_MalformedLegacy ==
    [][(op'.name = "ReadTxLookupEntry" /\ Malformed(db, op'.hash))
       => /\ ret' = Nil
          /\ Len(log') = 1 /\ log'[1].level = "error"
          /\ alive'
          /\ calls' = <<>>
          /\ db' = db]_vars

C9_Witness ==
    /\ op.name = "ReadTxLookupEntry"
    /\ Malformed(db, op.hash)
    /\ ret = Nil
    /\ Len(log) = 1

\* the entries of the log that ReadTransaction writes itself; the others come
\* from ReadTxLookupEntry
OwnLog ==
    SelectSeq(log, LAMBDA e : e.msg \in {"Transaction referenced missing",
                                         "Transaction not found"})

\* the lookup entry of the last read gives a number that has a canonical hash
CanonicalFound ==
    /\ ReadTxLookupEntry(db, op.hash).ret # Nil
    /\ ReadCanonicalHash(db, Deref(ReadTxLookupEntry(db, op.hash).ret)) # ZeroHash

\* C14: ReadTransaction logs an error of its own exactly when the lookup entry
\* and the canonical hash were found and either the body is missing or no
\* transaction of the body has the hash; it logs nothing of its own when the
\* lookup entry is absent or the canonical hash is the zero hash.
C14_LoggingAsymmetry ==
    op.name = "ReadTransaction" =>
        LET inconsistent ==
                /\ CanonicalFound
                /\ \/ ResolvedBody = Nil
                   \/ \A i \in 1..Len(Deref(ResolvedBody)) :
                          Deref(ResolvedBody)[i].hash # op.hash
        IN  /\ inconsistent => (Len(OwnLog) = 1 /\ OwnLog[1].level = "error")
            /\ ~inconsistent => OwnLog = <<>>
            /\ ~CanonicalFound => OwnLog = <<>>

\* the body of the canonical block is not stored: one error logged
C14_Witness ==
    /\ op.name = "ReadTransaction"
    /\ CanonicalFound
    /\ ResolvedBody = Nil
    /\ log = <<Logged("error", "Transaction referenced missing")>>
    /\ ret = NoTransaction

\* the lookup entry gives a number without canonical hash: nothing logged
SilentOrphan ==
    /\ op.name = "ReadTransaction"
    /\ ReadTxLookupEntry(db, op.hash).ret # Nil
    /\ ~CanonicalFound
    /\ log = <<>>
    /\ ret = NoTransaction

\* C16: a non-nil transaction returned by ReadTransaction for hash h has hash h,
\* comes with the number ReadTxLookupEntry gives for h and the canonical hash at
\* that number, and its index is the lowest position of the block's transaction
\* list that holds a transaction with hash h.
C16_ConsistentTuple ==
    (op.name = "ReadTransaction" /\ ret.tx # Nil) =>
        /\ Deref(ret.tx).hash = op.hash
        /\ ReadTxLookupEntry(db, op.hash).ret = Ptr(ret.blockNumber)
        /\ ret.blockHash = ReadCanonicalHash(db, ret.blockNumber)
        /\ ReadWorkObject(db, ret.blockNumber, ret.blockHash) # Nil
        /\ LET txs == Deref(ReadWorkObject(db, ret.blockNumber, ret.blockHash))
           IN  /\ ret.txIndex + 1 \in 1..Len(txs)
               /\ txs[ret.txIndex + 1] = Deref(ret.tx)
               /\ \A i \in 1..ret.txIndex : txs[i].hash # op.hash

\* the transaction found at the second position of block 1, which holds it
\* again at the third
C16_Witness ==
    /\ op.name = "ReadTransaction" /\ op.hash = Hash(1)
    /\ ret = [tx |-> Ptr(Tx(1)), blockHash |-> Hash(11), blockNumber |-> 1, txIndex |-> 1]
    /\ Deref(ResolvedBody)[3].hash = Hash(1)

\* the hashes and the value a batch write was called with
BatchHashes(o) ==
    IF o.name = "WriteTxLookupEntries" THEN o.hashes
    ELSE [i \in 1..Len(o.wo.txs) |-> o.wo.txs[i].hash]
BatchValue(o) ==
    IF o.name = "WriteTxLookupEntries" THEN Bytes(o.number) ELSE o.wo.number

\* C13: a batch write ended by a fatal Put failure at the i-th hash leaves the
\* entries of the hashes 1..i-1 in the store with the value of the batch, and
\* every other key as it was: nothing is rolled back.
C13_PartialBatchPersists ==
    [][(/\ op'.name \in {"WriteTxLookupEntries", "WriteTxLookupEntriesByBlock"}
        /\ ~alive')
       => LET i == Len(calls')
              written == {txLookupKey(BatchHashes(op')[j]) : j \in 1..(i - 1)}
          IN  /\ i >= 1 /\ calls'[i].err
              /\ calls'[i].key = txLookupKey(BatchHashes(op')[i])
              /\ \A k \in written : k \in DOMAIN db' /\ db'[k] = BatchValue(op')
              /\ \A k \in (DOMAIN db \cup DOMAIN db') \ written :
                     k \in DOMAIN db /\ k \in DOMAIN db' /\ db'[k] = db[k]]_vars

\* a batch of two hashes died at its second Put: the store holds the entry of
\* the first hash and none for the second
C13_Witness ==
    /\ op.name = "WriteTxLookupEntries" /\ ~alive
    /\ Len(op.hashes) = 2 /\ op.number = 258
    /\ Len(calls) = 2 /\ calls[2].err
    /\ Get(db, txLookupKey(op.hashes[1])) = Bytes(258)
    /\ txLookupKey(op.hashes[2]) \notin DOMAIN db

-----------------------------------------------------------------------------
(* Properties of the bloom bits store *)

\* the keys DeleteBloombits(bit, from, to) is to remove from store
RangeKeys(store, bit, from, to) ==
    InRange(store, bloomBitsKey(bit, from, ZeroHash), bloomBitsKey(bit, to, ZeroHash))

\* C3: after DeleteBloombits(db, bit, from, to) the keys removed are exactly the
\* keys of length BloomBitsKeyLength in [bloomBitsKey(bit, from, zero),
\* bloomBitsKey(bit, to, zero)); every other key is still there with its value;
\* nothing is deleted when from >= to.
C3_RangeDeletionExact ==
    [][(op'.name = "DeleteBloombits" /\ alive')
       => /\ (DOMAIN db) \ (DOMAIN db') = RangeKeys(db, op'.bit, op'.from, op'.to)
          /\ \A k \in DOMAIN db' : k \in DOMAIN db /\ db'[k] = db[k]
          /\ op'.from >= op'.to => db' = db]_vars

\* the same, for the runs of DeleteBloombits in which no Delete call fails
RangeDeletionExactWhenDeletesSucceed ==
    [][(/\ op'.name = "DeleteBloombits" /\ alive'
        /\ \A i \in 1..Len(calls') : ~calls'[i].err)
       => /\ (DOMAIN db) \ (DOMAIN db') = RangeKeys(db, op'.bit, op'.from, op'.to)
          /\ \A k \in DOMAIN db' : k \in DOMAIN db /\ db'[k] = db[k]
          /\ op'.from >= op'.to => db' = db]_vars

\* C4: a Put or Delete that returns an error is the last store call of its
\* operation, and the operation logs at fatal severity and ends the process.
C4_StoreFailureIsFatal ==
    \A i \in 1..Len(calls) :
        calls[i].err =>
            /\ i = Len(calls)
            /\ ~alive
            /\ Len(log) > 0 /\ log[Len(log)].level = "fatal"

\* C12: DeleteBloombits leaves its iterator released on every exit path: the
\* normal end of the iteration, the break at the end bound, and the fatal path
\* after the iterator reported an error.
C12_IteratorReleased ==
    op.name = "DeleteBloombits" => iter = "released"

\* the same, for the runs of DeleteBloombits that return
IteratorReleasedOnReturn ==
    (op.name = "DeleteBloombits" /\ alive) => iter = "released"

\* the keys whose entry differs between two stores
Changed(before, after) ==
    {k \in (DOMAIN before) \cup (DOMAIN after) :
        \/ k \notin DOMAIN before
        \/ k \notin DOMAIN after
        \/ before[k] # after[k]}

\* the keys an operation called as o may change
Frame(o) ==
    CASE o.name \in {"WriteTxLookupEntries", "DeleteTxLookupEntries"} ->
            {txLookupKey(o.hashes[i]) : i \in 1..Len(o.hashes)}
      [] o.name = "WriteTxLookupEntriesByBlock" ->
            {txLookupKey(o.wo.txs[i].hash) : i \in 1..Len(o.wo.txs)}
      [] o.name = "DeleteTxLookupEntry" -> {txLookupKey(o.hash)}
      [] o.name = "WriteBloomBits" -> {bloomBitsKey(o.bit, o.section, o.head)}
      [] o.name = "DeleteBloombits" ->
            {k \in DOMAIN db : Len(k) = BloomBitsKeyLength /\ k[1] = 66}
      [] OTHER -> {}

\* C18: every operation changes only the entries of its frame: a lookup write or
\* delete the entries under txLookupKey of its hashes, WriteBloomBits the entry
\* under its bloomBitsKey, a read nothing; a lookup operation changes no bloom
\* bits entry and a bloom bits operation changes no lookup entry.
C18_Frame ==
    [][/\ Changed(db, db') \subseteq Frame(op')
       /\ op'.name \in {"ReadTxLookupEntry", "ReadTransaction", "ReadBloomBits"}
             => db' = db
       /\ op'.name \in {"WriteTxLookupEntries", "WriteTxLookupEntriesByBlock",
                        "DeleteTxLookupEntry", "DeleteTxLookupEntries",
                        "ReadTxLookupEntry", "ReadTransaction"}
             => \A k \in Changed(db, db') : k[1] # 66
       /\ op'.name \in {"ReadBloomBits", "WriteBloomBits", "DeleteBloombits"}
             => \A k \in Changed(db, db') : k[1] # 108]_vars

\* a batch write has put its two entries; the bloom bits written before it are
\* in the store as they were
C18_Witness ==
    /\ op.name = "WriteTxLookupEntries" /\ alive
    /\ Len(op.hashes) = 2 /\ op.hashes[1] # op.hashes[2] /\ op.number = 258
    /\ \A i \in 1..2 : Get(db, txLookupKey(op.hashes[i])) = Bytes(258)
    /\ Get(db, bloomBitsKey(1, 3, BloomHead)) = <<85>>
    /\ Get(db, bloomBitsKey(0, 3, BloomHead)) = <<170>>

-----------------------------------------------------------------------------
(* SanityCheck and its goroutine *)

\* SanityCheck(quitCh): take the copies and start the goroutine
StartSanityCheck ==
    /\ mpc = "off"
    /\ local' = LocalCopies
    /\ mpc' = "sleep"
    /\ UNCHANGED <<shared, sent, mlog, dbVars, bitsVars>>

\* some code of the process writes a shared constant in place
Mutate ==
    /\ mpc # "exited"
    /\ \E c \in ConstNames : \E v \in CorruptValues \cup {CommonValue(c)} :
         /\ v # shared[c]
         /\ shared' = [shared EXCEPT ![c] = v]
         /\ Cardinality({d \in ConstNames : shared'[d] # CommonValue(d)}) <= MaxCorrupt
    /\ UNCHANGED <<local, mpc, sent, mlog, dbVars, bitsVars>>

\* time.Sleep(1 * time.Minute) returns
Wake ==
    /\ mpc = "sleep"
    /\ mpc' = "check"
    /\ UNCHANGED <<shared, local, sent, mlog, dbVars, bitsVars>>

\* the if of the loop body, and the error it logs
Check ==
    /\ mpc = "check"
    /\ mpc' = AfterCheck(local, shared)
    /\ mlog' = IF Mutated(local, shared) THEN mlog + 1 ELSE mlog
    /\ UNCHANGED <<shared, local, sent, dbVars, bitsVars>>

\* quitCh <- struct{}{} completes: the channel took the value
Send ==
    /\ mpc = "send"
    /\ sent < MaxSends
    /\ sent' = sent + 1
    /\ mpc' = AfterSend
    /\ UNCHANGED <<shared, local, mlog, dbVars, bitsVars>>

\* the process, told to quit, exits
Exit ==
    /\ sent > 0
    /\ mpc # "exited"
    /\ mpc' = "exited"
    /\ UNCHANGED <<shared, local, sent, mlog, dbVars, bitsVars>>

InitMonitor ==
    /\ shared = [c \in ConstNames |-> CommonValue(c)]
    /\ local = <<>>
    /\ mpc = "off"
    /\ sent = 0
    /\ mlog = 0
    /\ IndexIdle
    /\ BitsIdle

NextMonitor ==
    \/ StartSanityCheck
    \/ Mutate
    \/ Wake
    \/ Check
    \/ Send
    \/ Exit

SpecMonitor == InitMonitor /\ [][NextMonitor]_vars

\* C2: whichever of the ten shared constants has been mutated in place, the
\* check of the next cycle goes on to send on quitCh.
C2_MutationDetected ==
    [][\A c \in ConstNames :
         (mpc = "check" /\ mpc' \in {"sleep", "send"} /\ shared[c] # CommonValue(c))
         => mpc' = "send"]_vars

\* the same for the eight constants the check compares with the shared values
MutationDetectedForComparedConstants ==
    [][\A c \in ConstNames \ {"Big2e256", "Big2e64"} :
         (mpc = "check" /\ mpc' \in {"sleep", "send"} /\ shared[c] # CommonValue(c))
         => mpc' = "send"]_vars

\* C5: once the goroutine has sent on quitCh it sends no second time and runs
\* no further check.
C5_SignalsOnceThenStops ==
    sent >= 1 => (sent = 1 /\ mpc \notin {"check", "send"})

\* every shared constant has the value the package gave it
Unmutated == \A c \in ConstNames : shared[c] = CommonValue(c)

\* C17: in an execution in which no shared constant is ever mutated, the
\* goroutine never sends on quitCh, however many check cycles it runs.
C17_NoFalseAbort == []Unmutated => [](sent = 0 /\ mpc # "send" /\ mlog = 0)

\* the goroutine has woken with unmutated constants and is at the check
C17_Witness ==
    /\ mpc = "check"
    /\ local = LocalCopies
    /\ Unmutated
    /\ sent = 0

-----------------------------------------------------------------------------
(* Big-bits arithmetic as actions *)

DoBitsToBigBits ==
    /\ bx > 0
    /\ bv = Nil
    /\ bv' = Ptr(BitsToBigBits(bx))
    /\ UNCHANGED <<bx, bq, dbVars, monVars>>

DoBigBitsToBits ==
    /\ bv # Nil
    /\ bq = Nil
    /\ bq' = Ptr([name |-> "BigBitsToBits", val |-> BigBitsToBits(Deref(bv))])
    /\ UNCHANGED <<bx, bv, dbVars, monVars>>

DoLogBig ==
    /\ bx > 0
    /\ bq = Nil
    /\ bq' = Ptr([name |-> "LogBig", val |-> LogBig(bx)])
    /\ UNCHANGED <<bx, bv, dbVars, monVars>>

DoEntropyBigBitsToDifficultyBits ==
    /\ bv # Nil
    /\ bq = Nil
    /\ bq' = Ptr([name |-> "EntropyBigBitsToDifficultyBits",
                  val |-> EntropyBigBitsToDifficultyBits(Deref(bv))])
    /\ UNCHANGED <<bx, bv, dbVars, monVars>>

InitBits ==
    /\ bx \in 1..MaxX
    /\ bv = Nil
    /\ bq = Nil
    /\ IndexIdle
    /\ MonitorIdle

NextBits ==
    \/ DoBitsToBigBits
    \/ DoBigBitsToBits
    \/ DoLogBig

SpecBits == InitBits /\ [][NextBits]_vars

\* floor(log2(x)) for x >= 1
FloorLog2(x) == CHOOSE k \in 0..30 : 2 ^ k <= x /\ x < 2 ^ (k + 1)

\* C10: BigBitsToBits(BitsToBigBits(x)) = floor(log2(x)) for every x >= 1, 8 for
\* x = 256, and the mantissa of the binary logarithm is in [0, 2^MantBits).
C10_CharacteristicRecovered ==
    /\ bx >= 1 => (BinaryLog(bx, MantBits).m >= 0 /\ BinaryLog(bx, MantBits).m < 2 ^ MantBits)
    /\ (bq # Nil /\ Deref(bq).name = "BigBitsToBits") =>
          /\ Deref(bq).val = FloorLog2(bx)
          /\ bx = 256 => Deref(bq).val = 8

C10_Witness ==
    /\ bx = 256
    /\ bv = Ptr(BitsToBigBits(256))
    /\ bq = Ptr([name |-> "BigBitsToBits", val |-> 8])

\* C15: BitsToBigBits is monotonic, BitsToBigBits(x) <= BitsToBigBits(y) whenever
\* 1 <= x <= y, and LogBig(x) = BitsToBigBits(x) for every x >= 1.
C15_MonotonicSameAsLogBig ==
    /\ bv # Nil => \A x \in 1..bx : BitsToBigBits(x) <= Deref(bv)
    /\ (bv # Nil /\ bq # Nil /\ Deref(bq).name = "LogBig") => Deref(bq).val = Deref(bv)

\* both transforms applied to 3: the same value, above that of 2
C15_Witness ==
    /\ bx = 3
    /\ bv # Nil /\ Deref(bv) > BitsToBigBits(2)
    /\ bq = Ptr([name |-> "LogBig", val |-> Deref(bv)])

-----------------------------------------------------------------------------
(* Entropy to difficulty *)

\* the powers of two up to Big2e256
PowersOfTwo == {2 ^ k : k \in 0..Big2e256Bits}

\* the big-bits values handed to EntropyBigBitsToDifficultyBits directly: every
\* value whose characteristic is at most Big2e256Bits + 1
BigBitsValues == 0..((Big2e256Bits + 2) * Big2e64 - 1)

\* either a magnitude to convert first, or an accumulated big-bits value
InitEntropy ==
    /\ \/ bx \in (1..MaxX) \cup PowersOfTwo /\ bv = Nil
       \/ bx = 0 /\ bv \in {Ptr(v) : v \in BigBitsValues}
    /\ bq = Nil
    /\ IndexIdle
    /\ MonitorIdle

NextEntropy ==
    \/ DoBitsToBigBits
    \/ DoEntropyBigBitsToDifficultyBits

SpecEntropy == InitEntropy /\ [][NextEntropy]_vars

RECURSIVE ShiftRight(_, _)
\* n >> k
ShiftRight(n, k) == IF k = 0 THEN n ELSE ShiftRight(n \div 2, k - 1)

\* the integer characteristic of a big-bits value: the c with
\* c * 2^MantBits <= v < (c + 1) * 2^MantBits
Characteristic(v) ==
    CHOOSE c \in 0..(Big2e256Bits + 2) :
        c * (2 ^ MantBits) <= v /\ v < (c + 1) * (2 ^ MantBits)

\* C11: EntropyBigBitsToDifficultyBits(v) is Big2e256 shifted right by the integer
\* characteristic of v, the fractional bits ignored; for x = 2^k up to Big2e256,
\* EntropyBigBitsToDifficultyBits(BitsToBigBits(x)) = Big2e256 / x, and for
\* x = 256 it is Big2e256 / 2^8.
C11_DifficultyFromCharacteristic ==
    (bq # Nil /\ Deref(bq).name = "EntropyBigBitsToDifficultyBits") =>
        /\ Deref(bq).val = ShiftRight(Big2e256, Characteristic(Deref(bv)))
        /\ \A k \in 0..Big2e256Bits :
              bx = 2 ^ k => Deref(bq).val = 2 ^ (Big2e256Bits - k)
        /\ bx = 256 => Deref(bq).val = 2 ^ (Big2e256Bits - 8)

C11_Witness ==
    /\ bx = 256
    /\ bv = Ptr(8 * Big2e64)
    /\ bq = Ptr([name |-> "EntropyBigBitsToDifficultyBits",
                 val |-> 2 ^ (Big2e256Bits - 8)])

====
